---- MODULE Spec2Model ----
(***************************************************************************)
(* SoundFlow service (service/src/main.rs): the audio transport pipeline,  *)
(* the Device Registry calls, and the feedback client (sf_feekback).       *)
(*                                                                         *)
(*   capture callback -> capture ring -> broadcaster loop -> broadcast     *)
(*     channel -> one forwarding task per GetFlow call -> mpsc -> client   *)
(*   SendFlow stream -> ingest task -> (mutex) playback ring -> playback   *)
(*     callback -> output buffer                                           *)
(*                                                                         *)
(* Samples are integers: 0 is 0.0, 5 is 0.5, 10 is 1.0; the code only      *)
(* copies samples, it never computes with them.  Captured samples are      *)
(* numbered 1, 2, 3, ... so that every captured packet is distinct.        *)
(* PACKAGE_SIZE and the three capacities are scaled down from the source   *)
(* values (1000 and 128); every definition is parametric in them.          *)
(***************************************************************************)
EXTENDS Integers, Sequences, FiniteSets, TLC

\* main.rs:26, const PACKAGE_SIZE (1000 in the source).
PACKAGE_SIZE == 2
\* main.rs:127 and 153, HeapRb::new(128).
RingCap == 2
\* main.rs:89, broadcast::channel(128).
BroadcastCap == 2
\* main.rs:64, mpsc::channel(128).
MpscCap == 1
\* Number of packets offered to the relay queues in one behaviour
\* (capture chunks plus SendFlow stream items).
MaxPackets == 3
\* Number of playback callbacks in one behaviour.
MaxPulls == 2
\* sf_feekback/src/main.rs:13, mpsc::channel(128) of the feedback client.
FeedbackCap == 1
\* Number of items the GetFlow stream yields to the feedback client in one
\* behaviour.
MaxItems == 4

Subs == {1, 2}
Streams == {1, 2}

VARIABLES
    capPc, capData, capIdx, capOffered, capCount, capQ, capAccepted, capPopped,
    bcPc, bcHand, bcast, published, unheard, sentLog,
    subs, overrun,
    ingest, items, mutex, playQ, playAccepted, playPopped,
    outPc, outData, outIdx, outEntry, outMark, pulls,
    mixer, devCall, setLog,
    fbPc, fbHand, fbChan, fbRxOpen, fbArrived, fbOut, fbEnded

capVars == <<capPc, capData, capIdx, capOffered, capCount, capQ, capAccepted, capPopped>>
bcVars == <<bcPc, bcHand, bcast, published, unheard, sentLog>>
subVars == <<subs, overrun>>
inVars == <<ingest, items, mutex>>
playVars == <<playQ, playAccepted, playPopped>>
outVars == <<outPc, outData, outIdx, outEntry, outMark, pulls>>
devVars == <<mixer, devCall, setLog>>
fbVars == <<fbPc, fbHand, fbChan, fbRxOpen, fbArrived, fbOut, fbEnded>>
serviceVars == <<capVars, bcVars, subVars, inVars, playVars, outVars>>
vars == <<serviceVars, devVars, fbVars>>

Min(a, b) == IF a <= b THEN a ELSE b

\* Mutation of chunks: chunks_exact, which leaves the remainder out.
RECURSIVE chunksExact(_)
chunksExact(data) ==
    IF Len(data) < PACKAGE_SIZE THEN <<>>
    ELSE <<SubSeq(data, 1, PACKAGE_SIZE)>>
         \o chunksExact(SubSeq(data, PACKAGE_SIZE + 1, Len(data)))

\* slice.chunks(PACKAGE_SIZE): consecutive slices of PACKAGE_SIZE elements,
\* the last one shorter when the length is no multiple; none for an empty slice.
RECURSIVE chunks(_)
chunks(data) ==
    IF Len(data) = 0 THEN <<>>
    ELSE <<SubSeq(data, 1, Min(PACKAGE_SIZE, Len(data)))>>
         \o chunks(SubSeq(data, PACKAGE_SIZE + 1, Len(data)))

\* Mutation of RingPush: the new item is placed at the head.
RingPushFront(q, x) ==
    IF Len(q) < RingCap THEN [q |-> <<x>> \o q, ok |-> TRUE]
    ELSE [q |-> q, ok |-> FALSE]

\* Mutation of RingPush: a full ring evicts its oldest item.
RingPushOverwrite(q, x) ==
    IF Len(q) < RingCap THEN [q |-> Append(q, x), ok |-> TRUE]
    ELSE [q |-> Append(Tail(q), x), ok |-> TRUE]

\* Mutation of RingPush: the ring grows instead of refusing.
RingPushGrow(q, x) == [q |-> Append(q, x), ok |-> TRUE]

\* Producer::push on a ring of capacity RingCap: Err(item) when full.
RingPush(q, x) ==
    IF Len(q) < RingCap THEN [q |-> Append(q, x), ok |-> TRUE]
    ELSE [q |-> q, ok |-> FALSE]

\* The buffer the capture device hands to the callback: n fresh samples.
CaptureBuffer(n) == [i \in 1..n |-> capCount.samples + i]

CaptureLens == {0, 1, PACKAGE_SIZE, 2 * PACKAGE_SIZE + PACKAGE_SIZE \div 2}

NoSub == [pc |-> "none", next |-> 0, hand |-> <<>>, mpsc |-> <<>>, rxOpen |-> FALSE,
          got |-> <<>>, subAt |-> 0, missed |-> 0]

\* arrived: the items the stream has yielded; offered: the pushes the task made.
NoStream == [pc |-> "none", item |-> <<>>, ended |-> FALSE,
             arrived |-> <<>>, offered |-> <<>>]

\* Packets a SendFlow peer transmits: A (half a package of 1.0), B (a full
\* package of 0.5) and one packet longer than PACKAGE_SIZE.
PktA == [i \in 1..(PACKAGE_SIZE \div 2) |-> 10]
PktB == [i \in 1..PACKAGE_SIZE |-> 5]
PktLong == [i \in 1..(PACKAGE_SIZE + 1) |-> 20 + i]
StreamPackets == {PktA, PktB, PktLong}

\* Lengths the output device requests, and what the buffer holds on entry:
\* stale samples (-1, -2, ...).
OutLens == {PACKAGE_SIZE, PACKAGE_SIZE + 1}
OutEntryBuffers(n) == {[i \in 1..n |-> 0 - i]}

\* Indices of the sinks the mixer may list, and the ids a SetDevice request
\* may carry (RequestIds has one id no sink ever has).
DeviceIds == {1, 2}
RequestIds == {1, 2, 3}
DeviceStates == {"absent", "named", "unnamed"}

\* No GetDevices or SetDevice call has been handled yet.
NoCall == [op |-> "none", id |-> 0, res |-> "none", listed |-> {},
           default0 |-> 0, log0 |-> {}]

Init ==
    /\ capPc = "idle" /\ capData = <<>> /\ capIdx = 0 /\ capOffered = <<>>
    /\ capCount = [samples |-> 0, chunks |-> 0]
    /\ capQ = <<>> /\ capAccepted = <<>> /\ capPopped = <<>>
    /\ bcPc = "pop" /\ bcHand = <<>>
    /\ bcast = [tail |-> 0, buf |-> <<>>, rx_cnt |-> 0]
    /\ published = <<>> /\ unheard = 0
    /\ subs = [s \in Subs |-> NoSub]
    /\ overrun = [s \in Subs |-> FALSE]
    /\ ingest = [s \in Streams |-> NoStream]
    /\ items = 0 /\ mutex = 0
    /\ playQ = <<>> /\ playAccepted = <<>> /\ playPopped = <<>>
    /\ outPc = "idle" /\ outData = <<>> /\ outIdx = 0 /\ outEntry = <<>>
    /\ outMark = [acc |-> 0, pop |-> 0]
    /\ pulls = <<>>
    /\ sentLog = <<>>
    /\ mixer = [up |-> TRUE,
                devs |-> [d \in DeviceIds |-> IF d = 1 THEN "named" ELSE "absent"],
                default |-> 1]
    /\ devCall = NoCall
    /\ setLog = {}
    /\ fbPc = "recv" /\ fbHand = <<>> /\ fbChan = <<>> /\ fbRxOpen = TRUE
    /\ fbArrived = <<>> /\ fbOut = <<>> /\ fbEnded = FALSE

----------------------------------------------------------------------------
\* Capture Source: microphone::input_data_fn

\* The device invokes the callback with a buffer of n samples.
CaptureBegin(n) ==
    /\ capPc = "idle"
    /\ capCount.chunks + items + Len(chunks(CaptureBuffer(n))) <= MaxPackets
    /\ capPc' = IF n = 0 THEN "idle" ELSE "run"
    /\ capData' = CaptureBuffer(n)
    /\ capIdx' = 0
    /\ capOffered' = <<>>
    /\ capCount' = [samples |-> capCount.samples + n,
                    chunks |-> capCount.chunks + Len(chunks(CaptureBuffer(n)))]
    /\ UNCHANGED <<devVars, fbVars, capQ, capAccepted, capPopped, bcVars, subVars,
                   inVars, playVars, outVars>>

\* One iteration of for_each: push chunk.to_vec(), log on a full ring.  The
\* callback returns after the last chunk.
CapturePush ==
    /\ capPc = "run"
    /\ capIdx < Len(chunks(capData))
    /\ LET chunk == chunks(capData)[capIdx + 1]
           r == RingPush(capQ, chunk)
       IN /\ capQ' = r.q
          /\ capOffered' = Append(capOffered, [pkt |-> chunk, ok |-> r.ok])
          /\ capAccepted' = IF r.ok THEN Append(capAccepted, chunk) ELSE capAccepted
    /\ capIdx' = capIdx + 1
    /\ capPc' = IF capIdx + 1 = Len(chunks(capData)) THEN "idle" ELSE "run"
    /\ UNCHANGED <<devVars, fbVars, capData, capCount, capPopped, bcVars, subVars,
                   inVars, playVars, outVars>>

----------------------------------------------------------------------------
\* Flow Broadcaster: the loop at the end of main

\* Mutation of BroadcasterPop: the newest packet of the queue is taken.
BroadcasterPopNewest ==
    /\ bcPc = "pop"
    /\ capQ # <<>>
    /\ bcHand' = capQ[Len(capQ)]
    /\ capQ' = SubSeq(capQ, 1, Len(capQ) - 1)
    /\ capPopped' = Append(capPopped, capQ[Len(capQ)])
    /\ bcPc' = "send"
    /\ UNCHANGED <<devVars, fbVars, capPc, capData, capIdx, capOffered, capCount,
                   capAccepted, bcast, published, unheard, sentLog, subVars, inVars,
                   playVars, outVars>>

\* recorded_consumer.pop() returned Some(v).
BroadcasterPop ==
    /\ bcPc = "pop"
    /\ capQ # <<>>
    /\ bcHand' = Head(capQ)
    /\ capQ' = Tail(capQ)
    /\ capPopped' = Append(capPopped, Head(capQ))
    /\ bcPc' = "send"
    /\ UNCHANGED <<devVars, fbVars, capPc, capData, capIdx, capOffered, capCount,
                   capAccepted,
                   bcast, published, unheard, sentLog, subVars, inVars, playVars, outVars>>

\* Mutation of BroadcastSend: a channel holding BroadcastCap values refuses
\* the new one.
BroadcastSendDropNewest(ch, v) ==
    IF ch.rx_cnt = 0 THEN ch
    ELSE IF Len(ch.buf) < BroadcastCap
         THEN [ch EXCEPT !.tail = @ + 1, !.buf = Append(@, v)]
         ELSE ch

\* broadcast Sender::send: Err when there is no receiver (the value is not
\* stored); otherwise the value takes the next position, overwriting the
\* oldest retained one when BroadcastCap values are retained.  Never waits.
BroadcastSend(ch, v) ==
    IF ch.rx_cnt = 0 THEN ch
    ELSE [ch EXCEPT !.tail = @ + 1,
                    !.buf = IF Len(@) < BroadcastCap THEN Append(@, v)
                            ELSE Append(Tail(@), v)]

\* let _ = tx.send(Ok(Flow { flow: v }))
BroadcasterSend ==
    /\ bcPc = "send"
    /\ bcast' = BroadcastSend(bcast, bcHand)
    /\ published' = IF bcast.rx_cnt = 0 THEN published ELSE Append(published, bcHand)
    /\ unheard' = IF bcast.rx_cnt = 0 THEN unheard + 1 ELSE unheard
    /\ sentLog' = Append(sentLog, [pkt |-> bcHand, rx |-> bcast.rx_cnt])
    /\ overrun' = [s \in Subs |->
                     overrun[s] \/ (/\ subs[s].pc # "none"
                                    /\ bcast.rx_cnt > 0
                                    /\ bcast.tail + 1 - subs[s].next > BroadcastCap)]
    /\ bcHand' = <<>>
    /\ bcPc' = "pop"
    /\ UNCHANGED <<devVars, fbVars, capVars, subs, inVars, playVars, outVars>>

\* recorded_consumer.pop() returned None: sleep(10 ms).await
BroadcasterEmpty ==
    /\ bcPc = "pop"
    /\ capQ = <<>>
    /\ bcPc' = "sleep"
    /\ UNCHANGED <<devVars, fbVars, capVars, bcHand, bcast, published, unheard,
                   sentLog, subVars, inVars, playVars, outVars>>

\* The sleep elapses.
BroadcasterWake ==
    /\ bcPc = "sleep"
    /\ bcPc' = "pop"
    /\ UNCHANGED <<devVars, fbVars, capVars, bcHand, bcast, published, unheard,
                   sentLog, subVars, inVars, playVars, outVars>>

----------------------------------------------------------------------------
\* Subscribers: SoundFlowService::get_flow

\* Mutation of GetFlow: the new receiver starts at the oldest retained packet.
GetFlowReplay(s) ==
    /\ subs[s].pc = "none"
    /\ subs' = [subs EXCEPT ![s] = [NoSub EXCEPT !.pc = "recv",
                                                 !.next = bcast.tail - Len(bcast.buf),
                                                 !.rxOpen = TRUE, !.subAt = bcast.tail]]
    /\ bcast' = [bcast EXCEPT !.rx_cnt = @ + 1]
    /\ UNCHANGED <<devVars, fbVars, capVars, bcPc, bcHand, published, unheard, sentLog,
                   overrun, inVars, playVars, outVars>>

\* self.consumer.subscribe(), mpsc::channel, tokio::spawn, Ok(Response)
GetFlow(s) ==
    /\ subs[s].pc = "none"
    /\ subs' = [subs EXCEPT ![s] = [NoSub EXCEPT !.pc = "recv", !.next = bcast.tail,
                                                 !.rxOpen = TRUE, !.subAt = bcast.tail]]
    /\ bcast' = [bcast EXCEPT !.rx_cnt = @ + 1]
    /\ UNCHANGED <<devVars, fbVars, capVars, bcPc, bcHand, published, unheard, sentLog,
                   overrun, inVars, playVars, outVars>>

\* Position of the oldest value the channel retains.
Oldest(ch) == ch.tail - Len(ch.buf)

\* Mutation of BroadcastRecv: a lagged receiver skips to the newest value.
BroadcastRecvSkipNewest(ch, next) ==
    IF next = ch.tail THEN [kind |-> "empty", next |-> next, v |-> <<>>]
    ELSE IF next < ch.tail - Len(ch.buf)
         THEN [kind |-> "lagged", next |-> ch.tail - 1, v |-> <<>>]
    ELSE [kind |-> "ok", next |-> next + 1, v |-> ch.buf[next - (ch.tail - Len(ch.buf)) + 1]]

\* broadcast Receiver::recv at cursor next: Lagged(n) moves the cursor to the
\* oldest retained value; otherwise the value at the cursor.  "empty" when
\* the cursor is at the tail (recv().await stays pending).
BroadcastRecv(ch, next) ==
    IF next = ch.tail THEN [kind |-> "empty", next |-> next, v |-> <<>>]
    ELSE IF next < Oldest(ch) THEN [kind |-> "lagged", next |-> Oldest(ch), v |-> <<>>]
    ELSE [kind |-> "ok", next |-> next + 1, v |-> ch.buf[next - Oldest(ch) + 1]]

\* if let Ok(Ok(v)) = consumer.recv().await  (Err: next loop iteration)
SubRecv(s) ==
    /\ subs[s].pc = "recv"
    /\ LET r == BroadcastRecv(bcast, subs[s].next)
       IN /\ r.kind # "empty"
          /\ subs' = [subs EXCEPT ![s].next = r.next,
                                  ![s].hand = r.v,
                                  ![s].pc = IF r.kind = "ok" THEN "send" ELSE "recv",
                                  ![s].missed = @ + (IF r.kind = "lagged"
                                                     THEN r.next - subs[s].next ELSE 0)]
    /\ UNCHANGED <<devVars, fbVars, capVars, bcVars, overrun, inVars, playVars, outVars>>

\* let _ = tx.send(Ok(v)).await: waits while the mpsc is full, Err (ignored)
\* when the receiving half is gone.
SubSend(s) ==
    /\ subs[s].pc = "send"
    /\ \/ /\ ~subs[s].rxOpen
          /\ subs' = [subs EXCEPT ![s].pc = "recv", ![s].hand = <<>>]
       \/ /\ subs[s].rxOpen
          /\ Len(subs[s].mpsc) < MpscCap
          /\ subs' = [subs EXCEPT ![s].pc = "recv", ![s].hand = <<>>,
                                  ![s].mpsc = Append(@, subs[s].hand)]
    /\ UNCHANGED <<devVars, fbVars, capVars, bcVars, overrun, inVars, playVars, outVars>>

\* The transport takes the next item of the response stream for the client.
ClientTake(s) ==
    /\ subs[s].rxOpen
    /\ subs[s].mpsc # <<>>
    /\ subs' = [subs EXCEPT ![s].mpsc = Tail(@), ![s].got = Append(@, Head(subs[s].mpsc))]
    /\ UNCHANGED <<devVars, fbVars, capVars, bcVars, overrun, inVars, playVars, outVars>>

\* The client disconnects: the ReceiverStream (rx) is dropped with its items.
ClientClose(s) ==
    /\ subs[s].rxOpen
    /\ subs' = [subs EXCEPT ![s].rxOpen = FALSE, ![s].mpsc = <<>>]
    /\ UNCHANGED <<devVars, fbVars, capVars, bcVars, overrun, inVars, playVars, outVars>>

----------------------------------------------------------------------------
\* Flow Ingest: SoundFlowService::send_flow

\* request.into_inner(), self.producer.clone(), tokio::spawn, Ok(Response)
SendFlow(s) ==
    /\ ingest[s].pc = "none"
    /\ ingest' = [ingest EXCEPT ![s].pc = "await"]
    /\ UNCHANGED <<devVars, fbVars, capVars, bcVars, subVars, items, mutex, playVars,
                   outVars>>

\* stream.next().await yields Some(Ok(flow)).
StreamItemOk(s, p) ==
    /\ ingest[s].pc = "await"
    /\ capCount.chunks + items < MaxPackets
    /\ items' = items + 1
    /\ ingest' = [ingest EXCEPT ![s].pc = "lock", ![s].item = p,
                                ![s].arrived = Append(@, [ok |-> TRUE, pkt |-> p])]
    /\ UNCHANGED <<devVars, fbVars, capVars, bcVars, subVars, mutex, playVars, outVars>>

\* Mutation of StreamItemErr: the task exits on an erroneous item.
StreamItemErrExit(s) ==
    /\ ingest[s].pc = "await"
    /\ capCount.chunks + items < MaxPackets
    /\ items' = items + 1
    /\ ingest' = [ingest EXCEPT ![s].arrived = Append(@, [ok |-> FALSE, pkt |-> <<>>]),
                                ![s].pc = "done"]
    /\ UNCHANGED <<devVars, fbVars, capVars, bcVars, subVars, mutex, playVars, outVars>>

\* stream.next().await yields Some(Err(status)): `if let Ok` fails, the
\* while loop awaits the next item.
StreamItemErr(s) ==
    /\ ingest[s].pc = "await"
    /\ capCount.chunks + items < MaxPackets
    /\ items' = items + 1
    /\ ingest' = [ingest EXCEPT ![s].arrived = Append(@, [ok |-> FALSE, pkt |-> <<>>])]
    /\ UNCHANGED <<devVars, fbVars, capVars, bcVars, subVars, mutex, playVars, outVars>>

\* Mutation of StreamEnd: the task polls the finished stream again.
StreamEndRetry(s) ==
    /\ ingest[s].pc = "await"
    /\ ~ingest[s].ended
    /\ ingest' = [ingest EXCEPT ![s].ended = TRUE]
    /\ UNCHANGED <<devVars, fbVars, capVars, bcVars, subVars, items, mutex, playVars,
                   outVars>>

\* stream.next().await yields None: the while loop and the task end.
StreamEnd(s) ==
    /\ ingest[s].pc = "await"
    /\ ingest' = [ingest EXCEPT ![s].pc = "done", ![s].ended = TRUE]
    /\ UNCHANGED <<devVars, fbVars, capVars, bcVars, subVars, items, mutex, playVars,
                   outVars>>

\* Mutation of IngestLock: the producer is taken without waiting for the
\* task that holds it.
IngestLockBarge(s) ==
    /\ ingest[s].pc = "lock"
    /\ mutex' = s
    /\ ingest' = [ingest EXCEPT ![s].pc = "push"]
    /\ UNCHANGED <<devVars, fbVars, capVars, bcVars, subVars, items, playVars, outVars>>

\* producer.lock().unwrap(): waits while another task holds the mutex.
IngestLock(s) ==
    /\ ingest[s].pc = "lock"
    /\ mutex = 0
    /\ mutex' = s
    /\ ingest' = [ingest EXCEPT ![s].pc = "push"]
    /\ UNCHANGED <<devVars, fbVars, capVars, bcVars, subVars, items, playVars, outVars>>

\* .push(flow.flow), log on a full ring; the guard is dropped.
IngestPush(s) ==
    /\ ingest[s].pc = "push"
    /\ mutex = s
    /\ LET r == RingPush(playQ, ingest[s].item)
       IN /\ playQ' = r.q
          /\ playAccepted' = IF r.ok THEN Append(playAccepted, <<s, ingest[s].item>>)
                             ELSE playAccepted
          /\ ingest' = [ingest EXCEPT ![s].pc = "await", ![s].item = <<>>,
                                      ![s].offered = Append(@, [pkt |-> ingest[s].item,
                                                                ok |-> r.ok])]
    /\ mutex' = 0
    /\ UNCHANGED <<devVars, fbVars, capVars, bcVars, subVars, items, playPopped, outVars>>

----------------------------------------------------------------------------
\* Playback Sink: speaker::output_data_fn

\* Mutation of CopySegment: a short packet is repeated over the segment.
CopySegmentStretch(sample, consumer_data) ==
    [i \in 1..Len(sample) |->
        IF Len(consumer_data) = 0 THEN sample[i]
        ELSE consumer_data[((i - 1) % Len(consumer_data)) + 1]]

\* Mutation of CopySegment: the samples past the packet are zeroed.
CopySegmentZeroRest(sample, consumer_data) ==
    LET min == Min(Len(sample), Len(consumer_data))
    IN [i \in 1..Len(sample) |-> IF i <= min THEN consumer_data[i] ELSE 0]

\* sample[..min].copy_from_slice(&consumer_data.as_slice()[..min])
CopySegment(sample, consumer_data) ==
    LET min == Min(Len(sample), Len(consumer_data))
    IN [i \in 1..Len(sample) |-> IF i <= min THEN consumer_data[i] ELSE sample[i]]

\* sample.iter_mut().for_each(|x| *x = 0.0)
Silence(sample) == [i \in 1..Len(sample) |-> 0]

\* First and last position of the segment chunks_mut yields after k segments.
SegLo(k) == k * PACKAGE_SIZE + 1
SegHi(k, n) == Min((k + 1) * PACKAGE_SIZE, n)

\* The device invokes the callback with a buffer of n samples to fill.
OutputBegin(n, buf) ==
    /\ outPc = "idle"
    /\ Len(pulls) < MaxPulls
    /\ outPc' = "run"
    /\ outData' = buf
    /\ outEntry' = buf
    /\ outIdx' = 0
    /\ outMark' = [acc |-> Len(playAccepted), pop |-> Len(playPopped)]
    /\ UNCHANGED <<devVars, fbVars, capVars, bcVars, subVars, inVars, playVars, pulls>>

\* Mutation of OutputSegment: what a popped packet has beyond the segment is
\* put back at the head of the queue.
OutputSegmentCarry ==
    /\ outPc = "run"
    /\ outIdx < Len(chunks(outData))
    /\ LET lo == SegLo(outIdx)
           hi == SegHi(outIdx, Len(outData))
           sample == SubSeq(outData, lo, hi)
           filled == IF playQ # <<>> THEN CopySegment(sample, Head(playQ))
                     ELSE Silence(sample)
           rest == IF playQ # <<>> /\ Len(Head(playQ)) > Len(sample)
                   THEN <<SubSeq(Head(playQ), Len(sample) + 1, Len(Head(playQ)))>>
                   ELSE <<>>
       IN /\ outData' = [i \in 1..Len(outData) |->
                           IF lo <= i /\ i <= hi THEN filled[i - lo + 1] ELSE outData[i]]
          /\ playQ' = IF playQ # <<>> THEN rest \o Tail(playQ) ELSE playQ
    /\ playPopped' = IF playQ # <<>> THEN Append(playPopped, Head(playQ)) ELSE playPopped
    /\ outIdx' = outIdx + 1
    /\ IF outIdx + 1 = Len(chunks(outData))
       THEN /\ outPc' = "idle"
            /\ pulls' = Append(pulls, [entry |-> outEntry, out |-> outData',
                                       acc |-> outMark.acc, pop |-> outMark.pop,
                                       accEnd |-> Len(playAccepted)])
       ELSE UNCHANGED <<outPc, pulls>>
    /\ UNCHANGED <<devVars, fbVars, capVars, bcVars, subVars, inVars, playAccepted,
                   outEntry, outMark>>

\* Mutation of OutputSegment: the consumer half is reached through the
\* ingest tasks' mutex.
OutputSegmentLocked ==
    /\ outPc = "run"
    /\ mutex = 0
    /\ outIdx < Len(chunks(outData))
    /\ LET lo == SegLo(outIdx)
           hi == SegHi(outIdx, Len(outData))
           sample == SubSeq(outData, lo, hi)
           filled == IF playQ # <<>> THEN CopySegment(sample, Head(playQ))
                     ELSE Silence(sample)
       IN outData' = [i \in 1..Len(outData) |->
                        IF lo <= i /\ i <= hi THEN filled[i - lo + 1] ELSE outData[i]]
    /\ playQ' = IF playQ # <<>> THEN Tail(playQ) ELSE playQ
    /\ playPopped' = IF playQ # <<>> THEN Append(playPopped, Head(playQ)) ELSE playPopped
    /\ outIdx' = outIdx + 1
    /\ IF outIdx + 1 = Len(chunks(outData))
       THEN /\ outPc' = "idle"
            /\ pulls' = Append(pulls, [entry |-> outEntry, out |-> outData',
                                       acc |-> outMark.acc, pop |-> outMark.pop,
                                       accEnd |-> Len(playAccepted)])
       ELSE UNCHANGED <<outPc, pulls>>
    /\ UNCHANGED <<devVars, fbVars, capVars, bcVars, subVars, inVars, playAccepted,
                   outEntry, outMark>>

\* One iteration of the for loop: pop, then copy or silence.  The callback
\* returns the buffer to the device after the last segment.
OutputSegment ==
    /\ outPc = "run"
    /\ outIdx < Len(chunks(outData))
    /\ LET lo == SegLo(outIdx)
           hi == SegHi(outIdx, Len(outData))
           sample == SubSeq(outData, lo, hi)
           filled == IF playQ # <<>> THEN CopySegment(sample, Head(playQ))
                     ELSE Silence(sample)
       IN outData' = [i \in 1..Len(outData) |->
                        IF lo <= i /\ i <= hi THEN filled[i - lo + 1] ELSE outData[i]]
    /\ playQ' = IF playQ # <<>> THEN Tail(playQ) ELSE playQ
    /\ playPopped' = IF playQ # <<>> THEN Append(playPopped, Head(playQ)) ELSE playPopped
    /\ outIdx' = outIdx + 1
    /\ IF outIdx + 1 = Len(chunks(outData))
       THEN /\ outPc' = "idle"
            /\ pulls' = Append(pulls, [entry |-> outEntry, out |-> outData',
                                       acc |-> outMark.acc, pop |-> outMark.pop,
                                       accEnd |-> Len(playAccepted)])
       ELSE UNCHANGED <<outPc, pulls>>
    /\ UNCHANGED <<devVars, fbVars, capVars, bcVars, subVars, inVars, playAccepted,
                   outEntry, outMark>>

----------------------------------------------------------------------------
\* Device Registry: SoundFlowService::get_devices and set_device.  The mixer
\* is the system sound server behind SinkController: it may be unreachable,
\* and each sink it lists has an index and an optional name.

\* The sinks list_devices() returns.
Listed == {d \in DeviceIds : mixer.devs[d] # "absent"}

\* The outcome of a call, with the default sink and the set_default_device
\* invocations as they were when the call arrived.
Call(op, id, res, listed) ==
    [op |-> op, id |-> id, res |-> res, listed |-> listed,
     default0 |-> mixer.default, log0 |-> setLog]

\* The sound server stops or starts; a sink appears, disappears or changes.
MixerDown ==
    /\ mixer.up
    /\ mixer' = [mixer EXCEPT !.up = FALSE]
    /\ UNCHANGED <<serviceVars, devCall, setLog, fbVars>>

MixerUp ==
    /\ ~mixer.up
    /\ mixer' = [mixer EXCEPT !.up = TRUE]
    /\ UNCHANGED <<serviceVars, devCall, setLog, fbVars>>

DeviceChange(d, st) ==
    /\ mixer.devs[d] # st
    /\ mixer' = [mixer EXCEPT !.devs[d] = st]
    /\ UNCHANGED <<serviceVars, devCall, setLog, fbVars>>

\* get_devices: create().unwrap(), list_devices().unwrap() (a panic when the
\* mixer is unreachable), then the list as the response.
GetDevices ==
    /\ devCall' = IF mixer.up THEN Call("get", 0, "ok", Listed)
                  ELSE Call("get", 0, "panic", {})
    /\ UNCHANGED <<serviceVars, mixer, setLog, fbVars>>

\* Mutation of SetDevice: an id that is not listed is passed on to the mixer.
SetDeviceUnchecked(id) ==
    /\ IF ~mixer.up
       THEN /\ devCall' = Call("set", id, "panic", {})
            /\ UNCHANGED <<mixer, setLog>>
       ELSE IF id \in Listed /\ mixer.devs[id] = "unnamed"
       THEN /\ devCall' = Call("set", id, "panic", Listed)
            /\ UNCHANGED <<mixer, setLog>>
       ELSE /\ devCall' = Call("set", id, "ok", Listed)
            /\ mixer' = [mixer EXCEPT !.default = id]
            /\ setLog' = setLog \cup {id}
    /\ UNCHANGED <<serviceVars, fbVars>>

\* set_device: create().unwrap(), list_devices().unwrap(), find the sink with
\* index id or return Status::not_found, then
\* set_default_device(name.unwrap()).unwrap().
SetDevice(id) ==
    /\ IF ~mixer.up
       THEN /\ devCall' = Call("set", id, "panic", {})
            /\ UNCHANGED <<mixer, setLog>>
       ELSE IF id \notin Listed
       THEN /\ devCall' = Call("set", id, "not_found", Listed)
            /\ UNCHANGED <<mixer, setLog>>
       ELSE IF mixer.devs[id] = "unnamed"
       THEN /\ devCall' = Call("set", id, "panic", Listed)
            /\ UNCHANGED <<mixer, setLog>>
       ELSE /\ devCall' = Call("set", id, "ok", Listed)
            /\ mixer' = [mixer EXCEPT !.default = id]
            /\ setLog' = setLog \cup {id}
    /\ UNCHANGED <<serviceVars, fbVars>>

----------------------------------------------------------------------------
\* Feedback client (sf_feekback/src/main.rs): a task takes the items of the
\* GetFlow response stream and sends the well-formed ones into an mpsc
\* channel, whose receiving half is the request stream of the SendFlow call.

\* The k-th item of the response stream as a packet of n samples.
FeedbackPacket(k, n) == [i \in 1..n |-> 100 * k + i]
FeedbackLens == {1, PACKAGE_SIZE}

\* flow.next().await yields Some(Ok(value)).
FeedbackItemOk(n) ==
    /\ fbPc = "recv"
    /\ ~fbEnded
    /\ Len(fbArrived) < MaxItems
    /\ LET value == FeedbackPacket(Len(fbArrived) + 1, n)
       IN /\ fbHand' = value
          /\ fbArrived' = Append(fbArrived, [ok |-> TRUE, pkt |-> value])
    /\ fbPc' = "send"
    /\ UNCHANGED <<serviceVars, devVars, fbChan, fbRxOpen, fbOut, fbEnded>>

\* flow.next().await yields Some(Err(status)): `if let` fails, next iteration.
FeedbackItemErr ==
    /\ fbPc = "recv"
    /\ ~fbEnded
    /\ Len(fbArrived) < MaxItems
    /\ fbArrived' = Append(fbArrived, [ok |-> FALSE, pkt |-> <<>>])
    /\ UNCHANGED <<serviceVars, devVars, fbPc, fbHand, fbChan, fbRxOpen, fbOut, fbEnded>>

\* flow.next().await yields None, now and in every later iteration: the loop
\* goes on polling the finished stream.
FeedbackStreamEnd ==
    /\ fbPc = "recv"
    /\ ~fbEnded
    /\ fbEnded' = TRUE
    /\ UNCHANGED <<serviceVars, devVars, fbPc, fbHand, fbChan, fbRxOpen, fbArrived, fbOut>>

\* Mutation of FeedbackSend: try_send, which gives the value up when the
\* channel is full.
FeedbackSendDrop ==
    /\ fbPc = "send"
    /\ \/ /\ ~fbRxOpen
          /\ fbPc' = "panicked"
          /\ UNCHANGED <<fbHand, fbChan>>
       \/ /\ fbRxOpen
          /\ fbChan' = IF Len(fbChan) < FeedbackCap THEN Append(fbChan, fbHand) ELSE fbChan
          /\ fbHand' = <<>>
          /\ fbPc' = "recv"
    /\ UNCHANGED <<serviceVars, devVars, fbRxOpen, fbArrived, fbOut, fbEnded>>

\* tx.send(value).await.unwrap(): waits while the channel is full; Err, hence
\* a panic of the task, when the receiving half is gone.
FeedbackSend ==
    /\ fbPc = "send"
    /\ \/ /\ ~fbRxOpen
          /\ fbPc' = "panicked"
          /\ UNCHANGED <<fbHand, fbChan>>
       \/ /\ fbRxOpen
          /\ Len(fbChan) < FeedbackCap
          /\ fbChan' = Append(fbChan, fbHand)
          /\ fbHand' = <<>>
          /\ fbPc' = "recv"
    /\ UNCHANGED <<serviceVars, devVars, fbRxOpen, fbArrived, fbOut, fbEnded>>

\* The SendFlow request stream (ReceiverStream::new(rx)) yields its next item
\* to the transport.
FeedbackTransmit ==
    /\ fbRxOpen
    /\ fbChan # <<>>
    /\ fbOut' = Append(fbOut, Head(fbChan))
    /\ fbChan' = Tail(fbChan)
    /\ UNCHANGED <<serviceVars, devVars, fbPc, fbHand, fbRxOpen, fbArrived, fbEnded>>

\* The SendFlow call ends (connection lost): the request stream is dropped
\* with what it holds.
FeedbackClose ==
    /\ fbRxOpen
    /\ fbRxOpen' = FALSE
    /\ fbChan' = <<>>
    /\ UNCHANGED <<serviceVars, devVars, fbPc, fbHand, fbArrived, fbOut, fbEnded>>

----------------------------------------------------------------------------
CaptureNext ==
    \/ \E n \in CaptureLens : CaptureBegin(n)
    \/ CapturePush
    \/ BroadcasterPop
    \/ BroadcasterSend
    \/ BroadcasterEmpty
    \/ BroadcasterWake

SubscriberNext ==
    \/ \E s \in Subs : GetFlow(s)
    \/ \E s \in Subs : SubRecv(s)
    \/ \E s \in Subs : SubSend(s)
    \/ \E s \in Subs : ClientTake(s)
    \/ \E s \in Subs : ClientClose(s)

\* The playback direction with the SendFlow calls in S.
PlaybackNext(S) ==
    \/ \E s \in S : SendFlow(s)
    \/ \E s \in S, p \in StreamPackets : StreamItemOk(s, p)
    \/ \E s \in S : StreamItemErr(s)
    \/ \E s \in S : StreamEnd(s)
    \/ \E s \in S : IngestLock(s)
    \/ \E s \in S : IngestPush(s)
    \/ \E n \in OutLens : \E buf \in OutEntryBuffers(n) : OutputBegin(n, buf)
    \/ OutputSegment

\* The capture direction with its subscribers.
NextCapture == CaptureNext \/ SubscriberNext
SpecCapture == Init /\ [][NextCapture]_vars

\* The capture direction up to the GetFlow tasks (their clients take nothing
\* from the delivery channels), and a broadcaster loop that is scheduled whenever it can take a
\* step (main's loop never blocks but in its sleep, which elapses).
NextBroadcast ==
    \/ CaptureNext
    \/ \E s \in Subs : GetFlow(s)
    \/ \E s \in Subs : SubRecv(s)
    \/ \E s \in Subs : SubSend(s)
FairBroadcast ==
    /\ Init /\ [][NextBroadcast]_vars
    /\ WF_vars(BroadcasterPop)
    /\ WF_vars(BroadcasterSend)
    /\ WF_vars(BroadcasterEmpty)
    /\ WF_vars(BroadcasterWake)

\* The playback direction fed by one SendFlow call.
NextPlayback == PlaybackNext({1})
SpecPlayback == Init /\ [][NextPlayback]_vars

\* The playback direction fed by concurrent SendFlow calls.
NextIngest == PlaybackNext(Streams)
SpecIngest == Init /\ [][NextIngest]_vars

\* Concurrent SendFlow calls whose peers send short and full packets and
\* never end their streams; the output device asks for one segment.
NextConcurrent ==
    \/ \E s \in Streams : SendFlow(s)
    \/ \E s \in Streams, p \in {PktA, PktB} : StreamItemOk(s, p)
    \/ \E s \in Streams : IngestLock(s)
    \/ \E s \in Streams : IngestPush(s)
    \/ \E n \in {PACKAGE_SIZE} : \E buf \in OutEntryBuffers(n) : OutputBegin(n, buf)
    \/ OutputSegment
SpecConcurrent == Init /\ [][NextConcurrent]_vars

\* Both relay queues with the steps of their producers and consumers.
NextRelay ==
    \/ \E n \in CaptureLens : CaptureBegin(n)
    \/ CapturePush
    \/ BroadcasterPop
    \/ BroadcasterSend
    \/ \E s \in {1} : SendFlow(s)
    \/ \E s \in {1}, p \in StreamPackets : StreamItemOk(s, p)
    \/ \E s \in {1} : IngestLock(s)
    \/ \E s \in {1} : IngestPush(s)
    \/ \E n \in OutLens : \E buf \in OutEntryBuffers(n) : OutputBegin(n, buf)
    \/ OutputSegment
SpecRelay == Init /\ [][NextRelay]_vars

\* Every component of the service at once, with one SendFlow call and one
\* GetFlow call; the capture device hands over one or two chunks at a time,
\* the output device asks for two segments and the peer sends full packets.
NextService ==
    \/ \E n \in {PACKAGE_SIZE, PACKAGE_SIZE + 1} : CaptureBegin(n)
    \/ CapturePush
    \/ BroadcasterPop
    \/ BroadcasterSend
    \/ BroadcasterEmpty
    \/ BroadcasterWake
    \/ \E s \in {1} : GetFlow(s)
    \/ \E s \in {1} : SubRecv(s)
    \/ \E s \in {1} : SubSend(s)
    \/ \E s \in {1} : ClientTake(s)
    \/ \E s \in {1} : SendFlow(s)
    \/ \E s \in {1}, p \in {PktB} : StreamItemOk(s, p)
    \/ \E s \in {1} : IngestLock(s)
    \/ \E s \in {1} : IngestPush(s)
    \/ \E n \in {PACKAGE_SIZE + 1} : \E buf \in OutEntryBuffers(n) : OutputBegin(n, buf)
    \/ OutputSegment
SpecService == Init /\ [][NextService]_vars

\* The Device Registry with its mixer.
NextDevices ==
    \/ MixerDown
    \/ MixerUp
    \/ \E d \in DeviceIds, st \in DeviceStates : DeviceChange(d, st)
    \/ GetDevices
    \/ \E id \in RequestIds : SetDevice(id)
SpecDevices == Init /\ [][NextDevices]_vars

\* The feedback client.
NextFeedback ==
    \/ \E n \in FeedbackLens : FeedbackItemOk(n)
    \/ FeedbackItemErr
    \/ FeedbackStreamEnd
    \/ FeedbackSend
    \/ FeedbackTransmit
    \/ FeedbackClose
SpecFeedback == Init /\ [][NextFeedback]_vars
----------------------------------------------------------------------------
\* Properties

RECURSIVE Concat(_)
Concat(ss) == IF ss = <<>> THEN <<>> ELSE Head(ss) \o Concat(Tail(ss))

Pkts(log) == [i \in 1..Len(log) |-> log[i].pkt]
PlayAcceptedPkts == [i \in 1..Len(playAccepted) |-> playAccepted[i][2]]
Dropped(log) == \E i \in 1..Len(log) : ~log[i].ok

\* C1: for both relay queues, the packets pop has returned followed by the
\* packets still queued are exactly the packets whose push was accepted, in
\* push order and unchanged: none lost, duplicated or reordered.
C1_RelayFifo ==
    /\ capPopped \o capQ = capAccepted
    /\ playPopped \o playQ = PlayAcceptedPkts

C1_Witness ==
    /\ Len(capPopped) >= 2
    /\ Len(playPopped) >= 1
    /\ capPopped[1] # capPopped[2]

\* C2: a push to a full relay queue (capture callback or ingest task) is a
\* step the pusher can always take; it leaves the queue and its order
\* unchanged, discards the incoming packet and moves on without retrying.
C2_CaptureFullPush ==
    (capPc = "run" /\ capIdx' = capIdx + 1 /\ Len(capQ) = RingCap)
        => /\ capQ' = capQ
           /\ capAccepted' = capAccepted
           /\ ~capOffered'[Len(capOffered')].ok
           /\ capOffered'[Len(capOffered')].pkt = chunks(capData)[capIdx + 1]

C2_IngestFullPush ==
    \A s \in Streams :
        (ingest[s].pc = "push" /\ ingest'[s].pc # "push" /\ Len(playQ) = RingCap)
            => /\ playQ' = playQ
               /\ playAccepted' = playAccepted
               /\ ingest'[s].pc = "await"
               /\ ingest'[s].item = <<>>
               /\ mutex' = 0
               /\ ~ingest'[s].offered[Len(ingest'[s].offered)].ok

C2_NeverWaits ==
    /\ capPc = "run" => ENABLED CapturePush
    /\ \A s \in Streams : ingest[s].pc = "push" => ENABLED IngestPush(s)

C2_FullPushDrops ==
    /\ []C2_NeverWaits
    /\ [][C2_CaptureFullPush /\ C2_IngestFullPush]_vars

C2_Witness ==
    /\ Len(playQ) = RingCap
    /\ \E s \in Streams : Dropped(ingest[s].offered)

\* C3: an output segment of length L <= PACKAGE_SIZE: with a packet of length
\* P queued, the first min(L, P) samples become the packet's first min(L, P)
\* samples and every other sample of the buffer keeps its value; with the
\* queue empty the L samples become zero.  The callback can always proceed.
C3_Segment ==
    (outPc = "run" /\ outIdx' = outIdx + 1) =>
        LET lo == SegLo(outIdx)
            hi == SegHi(outIdx, Len(outData))
            L == hi - lo + 1
        IN /\ 1 <= L /\ L <= PACKAGE_SIZE
           /\ Len(outData') = Len(outData)
           /\ IF playQ # <<>>
              THEN LET P == Len(Head(playQ))
                   IN \A i \in 1..Len(outData) :
                        outData'[i] = IF lo <= i /\ i < lo + Min(L, P)
                                      THEN Head(playQ)[i - lo + 1]
                                      ELSE outData[i]
              ELSE \A i \in 1..Len(outData) :
                        outData'[i] = IF lo <= i /\ i <= hi THEN 0 ELSE outData[i]

C3_NeverBlocks == outPc = "run" => ENABLED OutputSegment

C3_SegmentFill == []C3_NeverBlocks /\ [][C3_Segment]_vars

\* A short packet was copied over stale samples, and a later pull was silence.
C3_Witness ==
    \E j, k \in 1..Len(pulls) :
        /\ j < k
        /\ Len(pulls[j].out) = PACKAGE_SIZE
        /\ pulls[j].out[1] = 10
        /\ pulls[j].out[PACKAGE_SIZE] = 0 - PACKAGE_SIZE
        /\ \A i \in 1..Len(pulls[k].out) : pulls[k].out[i] = 0

\* C5: one capture callback with a buffer of n samples offers
\* ceil(n / PACKAGE_SIZE) packets in order, all of length PACKAGE_SIZE but the
\* last, of length n - PACKAGE_SIZE * (count - 1); they concatenate to the
\* buffer, and with enough free slots all of them are queued.
C5_Chunking ==
    LET n == Len(capData)
        count == (n + PACKAGE_SIZE - 1) \div PACKAGE_SIZE
        off == Pkts(capOffered)
    IN /\ Len(off) = capIdx
       /\ capIdx <= count
       /\ capPc = "idle" => capIdx = count
       /\ \A k \in 1..Len(off) :
             Len(off[k]) = IF k < count THEN PACKAGE_SIZE
                           ELSE n - PACKAGE_SIZE * (count - 1)
       /\ Concat(off) = SubSeq(capData, 1, Min(n, capIdx * PACKAGE_SIZE))
       /\ ~Dropped(capOffered) =>
             SubSeq(capAccepted, Len(capAccepted) - capIdx + 1, Len(capAccepted)) = off

C5_Witness ==
    /\ capPc = "idle"
    /\ Len(capData) = 2 * PACKAGE_SIZE + PACKAGE_SIZE \div 2
    /\ ~Dropped(capOffered)
    /\ [k \in 1..Len(capOffered) |-> Len(capOffered[k].pkt)]
         = <<PACKAGE_SIZE, PACKAGE_SIZE, PACKAGE_SIZE \div 2>>
\* What subscriber s has been handed so far, and what still awaits it.
Seen(s) == subs[s].got \o subs[s].mpsc
           \o (IF subs[s].pc = "send" THEN <<subs[s].hand>> ELSE <<>>)
Unread(s) ==
    IF subs[s].next >= Oldest(bcast)
    THEN SubSeq(bcast.buf, subs[s].next - Oldest(bcast) + 1, Len(bcast.buf))
    ELSE bcast.buf
PosOf(x) == CHOOSE k \in 1..Len(published) : published[k] = x

\* C4: a subscriber the broadcast never overran and whose client is
\* connected has, delivered or on its way, every packet published since it
\* subscribed, in publish order, whatever the state of the other subscriber;
\* the broadcaster's publish step is enabled in every state it is due.
C4_Isolation ==
    /\ \A s \in Subs :
          (subs[s].pc # "none" /\ subs[s].rxOpen /\ ~overrun[s])
              => Seen(s) \o Unread(s)
                   = SubSeq(published, subs[s].subAt + 1, Len(published))
    /\ bcPc = "send" => ENABLED BroadcasterSend

\* Subscriber 2 never consumed and lost packets; subscriber 1 received all.
C4_Witness ==
    /\ overrun[2] /\ subs[2].missed > 0 /\ subs[2].got = <<>> /\ subs[2].rxOpen
    /\ ~overrun[1] /\ subs[1].rxOpen
    /\ Len(published) > BroadcastCap
    /\ subs[1].got = published

\* C6 scenario: two consecutive pulls of PACKAGE_SIZE samples, the queue
\* holding A then B at the first and nothing queued until the second returns.
C6_Scenario(j) ==
    /\ j + 1 <= Len(pulls)
    /\ Len(pulls[j].entry) = PACKAGE_SIZE
    /\ Len(pulls[j + 1].entry) = PACKAGE_SIZE
    /\ SubSeq(PlayAcceptedPkts, pulls[j].pop + 1, pulls[j].acc) = <<PktA, PktB>>
    /\ pulls[j + 1].accEnd = pulls[j].acc

\* C6 as claimed: pull 1 is A's samples followed by samples of B (0.5), and
\* pull 2 is silence.
C6_Original ==
    \A j \in 1..Len(pulls) :
        C6_Scenario(j) =>
            /\ pulls[j].out = [i \in 1..PACKAGE_SIZE |->
                                 IF i <= Len(PktA) THEN 10 ELSE 5]
            /\ pulls[j + 1].out = [i \in 1..PACKAGE_SIZE |-> 0]

\* C6 amended: pull 1 is A's samples followed by the samples the buffer held
\* on entry, unchanged; pull 2 is packet B.
C6_Amended ==
    \A j \in 1..Len(pulls) :
        C6_Scenario(j) =>
            /\ pulls[j].out = [i \in 1..PACKAGE_SIZE |->
                                 IF i <= Len(PktA) THEN 10 ELSE pulls[j].entry[i]]
            /\ pulls[j + 1].out = PktB

C6_Witness == \E j \in 1..Len(pulls) : C6_Scenario(j)

\* C7: what a subscriber is handed is an in-order, duplicate-free
\* subsequence of the packets published since it subscribed; a receive that
\* finds the cursor more than BroadcastCap behind hands over nothing, counts
\* the oldest unread packets as missed and moves the cursor to the oldest
\* retained packet, the task staying subscribed; any other receive hands
\* over the packet at the cursor.
C7_InOrder ==
    \A s \in Subs :
        /\ \A i \in 1..Len(Seen(s)) :
              \E k \in (subs[s].subAt + 1)..subs[s].next : published[k] = Seen(s)[i]
        /\ \A i, j \in 1..Len(Seen(s)) :
              i < j => PosOf(Seen(s)[i]) < PosOf(Seen(s)[j])

C7_Recv ==
    \A s \in Subs :
        (subs[s].pc = "recv" /\ subs'[s].next # subs[s].next) =>
            IF bcast.tail - subs[s].next > BroadcastCap
            THEN /\ subs'[s].next = bcast.tail - BroadcastCap
                 /\ subs'[s].pc = "recv"
                 /\ subs'[s].missed = subs[s].missed + (subs'[s].next - subs[s].next)
                 /\ Seen(s)' = Seen(s)
            ELSE /\ subs'[s].next = subs[s].next + 1
                 /\ subs'[s].pc = "send"
                 /\ subs'[s].hand = published[subs[s].next + 1]
                 /\ subs'[s].missed = subs[s].missed

C7_LaggedReader == []C7_InOrder /\ [][C7_Recv]_vars

\* A subscriber lost its oldest packets and then received the oldest retained.
C7_Witness ==
    \E s \in Subs :
        /\ subs[s].missed > 0
        /\ subs[s].got # <<>>
        /\ subs[s].got[1] = published[subs[s].subAt + subs[s].missed + 1]
        /\ Len(published) > subs[s].subAt + subs[s].missed + 1

Erred(s) == \E i \in 1..Len(ingest[s].arrived) : ~ingest[s].arrived[i].ok
WellFormed(s) == SelectSeq(ingest[s].arrived, LAMBDA it : it.ok)

\* C8 as claimed: after its stream's end or first error item an ingest task
\* pushes no further packet.
C8_Original ==
    [][\A s \in Streams :
         (ingest[s].ended \/ Erred(s)) => ingest'[s].offered = ingest[s].offered]_vars

\* C8 amended: an ingest task is terminated exactly when its stream has
\* ended (an error item does not end it); a terminated task holds no lock,
\* pushes nothing further and never resumes.
C8_Ended ==
    \A s \in Streams :
        /\ ingest[s].pc = "done" <=> ingest[s].ended
        /\ ingest[s].pc = "done" => mutex # s

C8_ExitOnEnd ==
    /\ []C8_Ended
    /\ [][\A s \in Streams : ingest[s].pc = "done" => ingest'[s] = ingest[s]]_vars

\* A stream yielded an error, later a packet that was pushed, then ended.
C8_Witness ==
    \E s \in Streams :
        /\ ingest[s].pc = "done"
        /\ Len(ingest[s].arrived) >= 2
        /\ ~ingest[s].arrived[1].ok
        /\ Len(ingest[s].offered) >= 1

\* C9: an erroneous stream item changes nothing of the playback queue and
\* leaves the task awaiting the next item; every well-formed packet that has
\* arrived, before or after an error, is offered to the queue in arrival order.
C9_ErrStep ==
    \A s \in Streams :
        (/\ Len(ingest'[s].arrived) = Len(ingest[s].arrived) + 1
         /\ ~ingest'[s].arrived[Len(ingest'[s].arrived)].ok)
            => /\ playQ' = playQ /\ playAccepted' = playAccepted
               /\ ingest'[s].pc = "await"
               /\ ingest'[s].offered = ingest[s].offered

C9_AllOffered ==
    \A s \in Streams :
        Pkts(WellFormed(s))
            = Pkts(ingest[s].offered)
              \o (IF ingest[s].pc \in {"lock", "push"} THEN <<ingest[s].item>> ELSE <<>>)

C9_SkipAndContinue == []C9_AllOffered /\ [][C9_ErrStep]_vars

\* A packet that arrived after an error item has been offered.
C9_Witness ==
    \E s \in Streams :
        /\ Len(ingest[s].arrived) >= 2
        /\ ~ingest[s].arrived[1].ok
        /\ ingest[s].arrived[2].ok
        /\ Len(ingest[s].offered) >= 1
        /\ ingest[s].pc = "await"

\* C10: when the forwarding task's send finds the client's receiving end
\* closed, the task terminates and releases its broadcast subscription.
C10_TaskEndsOnClose ==
    [][\A s \in Subs :
         (subs[s].pc = "send" /\ ~subs[s].rxOpen /\ subs'[s].pc # "send")
             => /\ subs'[s].pc = "done"
                /\ bcast'.rx_cnt = bcast.rx_cnt - 1]_vars

\* C11: every packet held in the capture queue or in the playback queue has
\* at most PACKAGE_SIZE samples, whatever the capture buffer sizes and
\* whatever packets the SendFlow peers transmit.
C11_PacketBound ==
    /\ \A i \in 1..Len(capQ) : Len(capQ[i]) <= PACKAGE_SIZE
    /\ \A i \in 1..Len(playQ) : Len(playQ[i]) <= PACKAGE_SIZE

\* The capture half of C11 alone: input_data_fn pushes chunks(PACKAGE_SIZE).
C11_CaptureBound == \A i \in 1..Len(capQ) : Len(capQ[i]) <= PACKAGE_SIZE

\* A GetFlow task suspended in consumer.recv().await.
SubSuspended(s) == subs[s].pc = "recv" /\ subs[s].next = bcast.tail

\* C12 (never waits): a callback that is running can always take its next
\* step, whoever holds the ingest mutex and wherever the async tasks are.
C12_CallbacksRun ==
    /\ capPc = "run" => ENABLED CapturePush
    /\ outPc = "run" => ENABLED OutputSegment

\* C12 (sharing): a step of the capture callback changes nothing outside the
\* callback but the capture queue, a step of the playback callback nothing
\* but the playback queue; neither touches the mutex, the broadcast channel
\* or a task.
C12_CaptureStep ==
    (capPc' # capPc \/ capIdx' # capIdx \/ capData' # capData)
        => UNCHANGED <<capPopped, bcVars, subVars, inVars, playVars, outVars>>
C12_OutputStep ==
    (outPc' # outPc \/ outIdx' # outIdx \/ outData' # outData)
        => UNCHANGED <<capVars, bcVars, subVars, inVars, playAccepted>>

C13_NotFound ==
    (devCall.op = "set" /\ devCall.res # "panic" /\ devCall.id \notin devCall.listed)
        => /\ devCall.res = "not_found"
           /\ setLog = devCall.log0
           /\ mixer.default = devCall.default0

\* The last call was a SetDevice for an id the listing did not have, made
\* after an earlier SetDevice had chosen another default sink.
C13_Witness ==
    /\ devCall.op = "set"
    /\ devCall.res = "not_found"
    /\ devCall.listed # {}
    /\ devCall.id \notin devCall.listed
    /\ setLog # {}

\* The subscribers that exist.
Current == {s \in Subs : subs[s].pc # "none"}
Heard == SelectSeq(sentLog, LAMBDA e : e.rx > 0)

\* C14 (safety): the packets handed to tx.send are the popped ones, once each
\* and in acceptance order; a send reaches the channel that every current
\* subscriber reads, which retains the newest published packets.
C14_PublishedOnce ==
    /\ capAccepted = capPopped \o capQ
    /\ capPopped = Pkts(sentLog) \o (IF bcPc = "send" THEN <<bcHand>> ELSE <<>>)
    /\ published = Pkts(Heard)
    /\ bcast.rx_cnt = Cardinality(Current)
    /\ bcast.tail = Len(published)
    /\ bcast.buf = SubSeq(published, Len(published) - Len(bcast.buf) + 1, Len(published))
    /\ Len(bcast.buf) = Min(BroadcastCap, Len(published))
    /\ \A s \in Current : subs[s].subAt <= subs[s].next /\ subs[s].next <= bcast.tail

\* C14 (empty queue): finding the queue empty, the broadcaster publishes
\* nothing and goes to sleep; it retries when the sleep has elapsed.
C14_EmptyStep ==
    /\ (bcPc = "pop" /\ capQ = <<>> /\ bcPc' # bcPc)
          => (bcPc' = "sleep" /\ UNCHANGED <<capVars, bcHand, bcast, published, sentLog>>)
    /\ (bcPc = "sleep" /\ bcPc' # bcPc)
          => (bcPc' = "pop" /\ UNCHANGED <<capVars, bcHand, bcast, published, sentLog>>)

\* C14 (liveness): the k-th accepted packet is eventually handed to tx.send.
C14_EventuallySent ==
    \A k \in 1..MaxPackets : (Len(capAccepted) >= k) ~> (Len(sentLog) >= k)

\* C14: every packet accepted into the capture queue is eventually popped and
\* published exactly once, in acceptance order, to the current subscribers;
\* on an empty queue the broadcaster publishes nothing and sleeps.
C14_Broadcast ==
    /\ []C14_PublishedOnce
    /\ [][C14_EmptyStep]_vars
    /\ C14_EventuallySent

\* Every packet of the budget has been sent, one of them to two subscribers,
\* and the broadcaster sleeps on the empty queue.
C14_Witness ==
    /\ Len(sentLog) = MaxPackets
    /\ \E i \in 1..Len(sentLog) : sentLog[i].rx = 2
    /\ capQ = <<>>
    /\ bcPc = "sleep"

\* C15: a request-level failure (mixer unreachable during GetDevices or
\* SetDevice, device not found) ends the call with an error response: the
\* handler does not abort abnormally, and the failed call changes nothing.
C15_ErrorResponse ==
    /\ devCall.res # "panic"
    /\ devCall.res = "not_found"
          => (setLog = devCall.log0 /\ mixer.default = devCall.default0)

\* The part of C15 the handlers keep: a call that fails changes nothing.
C15_FailureMutatesNothing ==
    devCall.res \in {"panic", "not_found"}
        => (setLog = devCall.log0 /\ mixer.default = devCall.default0)

\* The packets of stream s the playback queue accepted, in push order, and
\* the packets of s whose push was accepted, in arrival order.
AcceptedFrom(s) ==
    LET mine == SelectSeq(playAccepted, LAMBDA e : e[1] = s)
    IN [i \in 1..Len(mine) |-> mine[i][2]]
AcceptedOffers(s) == Pkts(SelectSeq(ingest[s].offered, LAMBDA e : e.ok))
Arrivals(s) == Pkts(SelectSeq(ingest[s].arrived, LAMBDA e : e.ok))

\* C16 (atomic pushes): the mutex is held exactly by the task that is between
\* lock and push, so at most one task pushes at a time; a task awaiting its
\* next item holds nothing, and a task waiting for the free mutex gets it.
C16_Exclusion ==
    /\ \A s \in Streams : (mutex = s) <=> (ingest[s].pc = "push")
    /\ \A s \in Streams : ingest[s].pc = "await" => mutex # s
    /\ \A t \in Streams :
          (ingest[t].pc = "lock" /\ \A s \in Streams : ingest[s].pc # "push")
              => ENABLED IngestLock(t)

\* C16 (interleaving): the packets popped so far followed by the queue are
\* the accepted packets of all streams, unaltered; those of one stream are in
\* the order that stream delivered them.
C16_Merge ==
    /\ playPopped \o playQ = PlayAcceptedPkts
    /\ \A s \in Streams :
          /\ AcceptedFrom(s) = AcceptedOffers(s)
          /\ Arrivals(s) = Pkts(ingest[s].offered)
                             \o (IF ingest[s].pc \in {"lock", "push"}
                                 THEN <<ingest[s].item>> ELSE <<>>)
    /\ Len(playAccepted) = Len(AcceptedFrom(1)) + Len(AcceptedFrom(2))

\* C16: concurrent SendFlow streams push atomically; the playback queue is an
\* interleaving that keeps each stream's order; a stalled stream holds no lock.
C16_ConcurrentIngest == C16_Exclusion /\ C16_Merge

\* Both streams had a packet accepted; stream 1 is awaiting its next item
\* while the task of stream 2 holds the mutex for its second packet.
C16_Witness ==
    /\ Len(playAccepted) = 2
    /\ playAccepted[1][1] = 1 /\ playAccepted[2][1] = 2
    /\ ingest[1].pc = "await"
    /\ mutex = 2

\* C17: each relay queue holds at most RingCap packets, the broadcast channel
\* retains at most BroadcastCap packets and each GetFlow delivery channel
\* holds at most MpscCap packets, at any rates of capture, ingest, playback
\* and client consumption.
C17_Bounded ==
    /\ Len(capQ) <= RingCap
    /\ Len(playQ) <= RingCap
    /\ Len(bcast.buf) <= BroadcastCap
    /\ \A s \in Subs : Len(subs[s].mpsc) <= MpscCap

\* The broadcast channel and the delivery channel are full, the GetFlow task
\* waits to send the next packet, and the playback queue holds a packet.
C17_Witness ==
    /\ Len(bcast.buf) = BroadcastCap
    /\ Len(subs[1].mpsc) = MpscCap
    /\ subs[1].pc = "send"
    /\ playQ # <<>>

\* ceil(L / PACKAGE_SIZE)
CeilSegments(L) == (L + PACKAGE_SIZE - 1) \div PACKAGE_SIZE

\* C18 (one pop per segment): a step removes at most one packet from the
\* playback queue, and only as the pop of a segment, which takes the head
\* of the queue whole; a segment finding the queue non-empty pops.
C18_PopStep ==
    /\ playPopped' # playPopped
          => /\ outIdx' = outIdx + 1
             /\ playQ # <<>>
             /\ playPopped' = Append(playPopped, Head(playQ))
             /\ playQ' = Tail(playQ)
    /\ (outPc = "run" /\ outIdx' = outIdx + 1 /\ playQ # <<>>)
          => playPopped' = Append(playPopped, Head(playQ))

\* C18 (pops per invocation): since the invocation began at most one packet
\* per processed segment was removed, at most ceil(L / PACKAGE_SIZE) in all.
C18_PopCount ==
    /\ Len(playPopped) - outMark.pop <= outIdx
    /\ outIdx <= CeilSegments(Len(outData))

\* C18 (excess discarded): the sample the long packet has beyond
\* PACKAGE_SIZE is in no output, neither the current one nor a finished one.
C18_ExcessDiscarded ==
    /\ \A i \in 1..Len(outData) : outData[i] # PktLong[PACKAGE_SIZE + 1]
    /\ \A k \in 1..Len(pulls) : \A i \in 1..Len(pulls[k].out) :
          pulls[k].out[i] # PktLong[PACKAGE_SIZE + 1]

\* C18: one pop per output segment, at most ceil(L / PACKAGE_SIZE) packets
\* per invocation, and a popped packet is consumed whole, its excess samples
\* never reaching an output.
C18_PopPerSegment ==
    /\ [](C18_PopCount /\ C18_ExcessDiscarded)
    /\ [][C18_PopStep]_vars

\* An invocation asking for PACKAGE_SIZE + 1 samples has popped two packets,
\* the long one first, and a later invocation has run after it.
C18_Witness ==
    /\ Len(pulls) = 2
    /\ Len(pulls[1].out) = PACKAGE_SIZE + 1
    /\ pulls[1].pop = 0 /\ pulls[2].pop = 2
    /\ playPopped[1] = PktLong
    /\ pulls[1].out[1] = PktLong[1]

\* The sends that found no receiver.
Unheard == SelectSeq(sentLog, LAMBDA e : e.rx = 0)

\* C19 (after subscription only): what a GetFlow task has taken from the
\* channel was sent after the task subscribed (subAt sends had been stored
\* by then).
C19_AfterSubscribe ==
    \A s \in Current : \A i \in 1..Len(Seen(s)) :
        \E k \in (subs[s].subAt + 1)..Len(Heard) : Heard[k].pkt = Seen(s)[i]

\* C19 (no subscriber): a packet sent while no subscriber existed is stored
\* nowhere and delivered to nobody, and it has left the capture queue; the
\* send itself never waits for a subscriber.
C19_Discarded ==
    /\ \A i \in 1..Len(Unheard) :
          /\ \A k \in 1..Len(bcast.buf) : bcast.buf[k] # Unheard[i].pkt
          /\ \A s \in Subs : \A k \in 1..Len(Seen(s)) : Seen(s)[k] # Unheard[i].pkt
          /\ \A k \in 1..Len(capQ) : capQ[k] # Unheard[i].pkt
    /\ Len(Unheard) = unheard
    /\ bcPc = "send" => ENABLED BroadcasterSend

\* C19: a subscriber is delivered only packets published after it subscribed;
\* packets published while nobody subscribes are discarded, the capture
\* queue being drained all the same.
C19_OnlyLater == C19_AfterSubscribe /\ C19_Discarded

\* A packet was sent and dropped while no subscriber existed; a task that
\* subscribed afterwards, with the other already subscribed, has delivered a
\* later packet to its client.
C19_Witness ==
    /\ unheard > 0
    /\ subs[1].got # <<>>
    /\ subs[1].subAt > 0

\* The well-formed packets the GetFlow stream has yielded to the client.
FeedbackReceived == Pkts(SelectSeq(fbArrived, LAMBDA e : e.ok))

\* C20 (lossless): while the SendFlow call is open, the packets handed to it,
\* then the packets in the channel, then the one the task is sending, are the
\* well-formed packets received, once each and in received order; after the
\* call has ended what was handed over is a prefix of them.
C20_Lossless ==
    /\ fbRxOpen =>
          FeedbackReceived
             = fbOut \o fbChan \o (IF fbPc = "send" THEN <<fbHand>> ELSE <<>>)
    /\ Len(fbOut) <= Len(FeedbackReceived)
    /\ fbOut = SubSeq(FeedbackReceived, 1, Len(fbOut))
    /\ Len(fbChan) <= FeedbackCap

\* C20 (backpressure, errors): on a full channel the task can only wait, and
\* it takes its step once there is room; the task stops on nothing but the
\* end of the SendFlow call, so an erroneous item leaves it receiving.
C20_Waits ==
    /\ (fbPc = "send" /\ fbRxOpen) => (ENABLED FeedbackSend <=> Len(fbChan) < FeedbackCap)
    /\ fbPc = "panicked" => ~fbRxOpen
    /\ (fbArrived # <<>> /\ ~fbArrived[Len(fbArrived)].ok /\ fbPc # "panicked")
          => fbPc = "recv"

\* C20: the feedback client relays every well-formed packet exactly once and
\* in order, waits on its full channel instead of dropping, and skips
\* erroneous items without stopping.
C20_Relay == C20_Lossless /\ C20_Waits

\* A packet was relayed, an erroneous item was skipped, and the task waits
\* with the third packet on the full channel that holds the second.
C20_Witness ==
    /\ fbRxOpen
    /\ Len(fbOut) = 1
    /\ \E i \in 1..Len(fbArrived) : ~fbArrived[i].ok
    /\ Len(fbChan) = FeedbackCap
    /\ fbPc = "send"
====
